---- MODULE Spec2Model ----
(***************************************************************************)
(* Type requirements of RCL (src/src/type_req.rs): the static comparison   *)
(* of a requirement against an inferred type, the public resolution of the *)
(* resulting diff, and the dynamic check of a value against a requirement. *)
(*                                                                         *)
(* Every Type, ReqType, TypeReq, TypeDiff and Value is a record with a     *)
(* string field `tag` naming the enum variant and one field per payload.   *)
(***************************************************************************)
EXTENDS Integers, Sequences, FiniteSets, TLC

VARIABLES req, type_, value, pc, diff, visited, typed, checked

vars == <<req, type_, value, pc, diff, visited, typed, checked>>

(***************************************************************************)
(* Bounds of the explored inputs.                                          *)
(***************************************************************************)
\* Nesting depth of compound requirements and types.
MaxDepth == 2
\* Largest number of arguments of a function requirement or function type.
MaxArgs == 2
\* Largest number of elements of a list value.
MaxLen == 3

(***************************************************************************)
(* enum Type (crate::types, used by pattern matching and equality only).   *)
(***************************************************************************)
AtomTags == {"Bool", "Int", "Null", "String"}

TNull == [tag |-> "Null"]
TBool == [tag |-> "Bool"]
TInt == [tag |-> "Int"]
TString == [tag |-> "String"]
TDynamic == [tag |-> "Dynamic"]
TList(t) == [tag |-> "List", elem |-> t]
TSet(t) == [tag |-> "Set", elem |-> t]
TDict(k, v) == [tag |-> "Dict", key |-> k, value |-> v]
TFunction(a, r) == [tag |-> "Function", args |-> a, result |-> r]

(***************************************************************************)
(* enum ReqType, struct DictReq, struct FunctionReq.                       *)
(***************************************************************************)
RBool == [tag |-> "Bool"]
RInt == [tag |-> "Int"]
RNull == [tag |-> "Null"]
RString == [tag |-> "String"]
RList(r) == [tag |-> "List", elem |-> r]
RSet(r) == [tag |-> "Set", elem |-> r]
RDict(k, v) == [tag |-> "Dict", key |-> k, value |-> v]
RFunction(a, r) == [tag |-> "Function", args |-> a, result |-> r]

(***************************************************************************)
(* enum TypeReq.  A Span is an opaque token.                               *)
(***************************************************************************)
ReqNone == [tag |-> "None"]
Annotation(at, t) == [tag |-> "Annotation", at |-> at, t |-> t]
Condition == [tag |-> "Condition"]
Operator(at, t) == [tag |-> "Operator", at |-> at, t |-> t]
IndexList == [tag |-> "IndexList"]

(***************************************************************************)
(* enum TypeDiff.                                                          *)
(***************************************************************************)
DiffOk(t) == [tag |-> "Ok", ty |-> t]
DiffDefer(t) == [tag |-> "Defer", ty |-> t]
DiffError(r, t) == [tag |-> "Error", req |-> r, ty |-> t]
DiffList(d) == [tag |-> "List", inner |-> d]
DiffSet(d) == [tag |-> "Set", inner |-> d]
DiffDict(k, v) == [tag |-> "Dict", k |-> k, v |-> v]
DiffFunction(a, r) == [tag |-> "Function", args |-> a, result |-> r]

(***************************************************************************)
(* TypeReq::req_type: the shape a requirement carries, if any.             *)
(***************************************************************************)
NoReqType == [tag |-> "NoReqType"]

req_type(r) ==
  CASE r.tag = "None" -> NoReqType
    [] r.tag = "Annotation" -> r.t
    [] r.tag = "Condition" -> RBool
    [] r.tag = "Operator" -> r.t
    [] r.tag = "IndexList" -> RInt

(***************************************************************************)
(* ReqType::to_type and TypeReq::to_type, mutually recursive.              *)
(***************************************************************************)
RECURSIVE ReqType_to_type(_)
RECURSIVE TypeReq_to_type(_)

to_type_list(t) == TList(t)

\* Mutant of to_type_set: the Set arm copies the List arm.
to_type_set_as_list(t) == TList(t)

to_type_set(t) == TSet(t)

to_type_dict(k, v) == TDict(k, v)

to_type_function(a, r) == TFunction(a, r)

ReqType_to_type(self) ==
  CASE self.tag = "Null" -> TNull
    [] self.tag = "Bool" -> TBool
    [] self.tag = "Int" -> TInt
    [] self.tag = "String" -> TString
    [] self.tag = "List" -> to_type_list(TypeReq_to_type(self.elem))
    [] self.tag = "Set" -> to_type_set(TypeReq_to_type(self.elem))
    [] self.tag = "Dict" ->
         to_type_dict(TypeReq_to_type(self.key), TypeReq_to_type(self.value))
    [] self.tag = "Function" ->
         to_type_function(
           [i \in 1..Len(self.args) |-> TypeReq_to_type(self.args[i])],
           TypeReq_to_type(self.result))

TypeReq_to_type(self) ==
  IF req_type(self) = NoReqType
    THEN TDynamic
    ELSE ReqType_to_type(req_type(self))

(***************************************************************************)
(* ReqType::check_type and TypeReq::check_type_impl: the static comparison *)
(* of a requirement against an inferred type.  The match arms of           *)
(* ReqType::check_type are the helpers below.                              *)
(***************************************************************************)
\* Mutant of check_dynamic: defers with the unknown type, not the projection.
check_dynamic_unprojected(self) == DiffDefer(TDynamic)

\* (_, Type::Dynamic): the check is deferred to runtime.
check_dynamic(self) == DiffDefer(ReqType_to_type(self))

\* A primitive requirement against the same primitive type.
check_atom(type) == DiffOk(type)

\* The fall-through arm: a flat type error.
check_mismatch(r, type) == DiffError(r, type)

\* Mutant of check_list: the element's error is passed on without the List
\* wrapper.
check_list_unwrapped(elem_diff, type) ==
  CASE elem_diff.tag = "Ok" -> DiffOk(type)
    [] elem_diff.tag = "Defer" -> DiffDefer(TList(elem_diff.ty))
    [] OTHER -> elem_diff

\* (ReqType::List, Type::List): the match on the element's diff.
check_list(elem_diff, type) ==
  CASE elem_diff.tag = "Ok" -> DiffOk(type)
    [] elem_diff.tag = "Defer" -> DiffDefer(TList(elem_diff.ty))
    [] OTHER -> DiffList(elem_diff)

\* (ReqType::Set, Type::Set): the match on the element's diff.
check_set(elem_diff, type) ==
  CASE elem_diff.tag = "Ok" -> DiffOk(type)
    [] elem_diff.tag = "Defer" -> DiffDefer(TSet(elem_diff.ty))
    [] OTHER -> DiffSet(elem_diff)

\* Mutant of check_dict: the reconstructed dict swaps key and value.
check_dict_swapped(k_diff, v_diff, type) ==
  CASE k_diff.tag = "Ok" /\ v_diff.tag = "Ok" -> DiffOk(type)
    [] k_diff.tag \in {"Ok", "Defer"} /\ v_diff.tag \in {"Ok", "Defer"}
         /\ ~(k_diff.tag = "Ok" /\ v_diff.tag = "Ok") ->
         DiffDefer(TDict(v_diff.ty, k_diff.ty))
    [] OTHER -> DiffDict(k_diff, v_diff)

\* Mutant of check_dict: the Ok-or-Defer arm comes first and takes the
\* both-Ok case too.
check_dict_reordered(k_diff, v_diff, type) ==
  CASE k_diff.tag \in {"Ok", "Defer"} /\ v_diff.tag \in {"Ok", "Defer"} ->
         DiffDefer(TDict(k_diff.ty, v_diff.ty))
    [] OTHER -> DiffDict(k_diff, v_diff)

\* (ReqType::Dict, Type::Dict): the match on the key's and the value's diff.
check_dict(k_diff, v_diff, type) ==
  CASE k_diff.tag = "Ok" /\ v_diff.tag = "Ok" -> DiffOk(type)
    [] k_diff.tag \in {"Ok", "Defer"} /\ v_diff.tag \in {"Ok", "Defer"}
         /\ ~(k_diff.tag = "Ok" /\ v_diff.tag = "Ok") ->
         DiffDefer(TDict(k_diff.ty, v_diff.ty))
    [] OTHER -> DiffDict(k_diff, v_diff)

\* Mutant of arity_mismatch: only a requirement with more arguments than the
\* type is a mismatch.
arity_mismatch_one_sided(fn_req, fn_type) == Len(fn_req.args) > Len(fn_type.args)

\* fn_req.args.len() != fn_type.args.len()
arity_mismatch(fn_req, fn_type) == Len(fn_req.args) # Len(fn_type.args)

\* The body of the loop over the zipped arguments: equality of the projection.
arg_diff(arg_req, arg_type) ==
  IF TypeReq_to_type(arg_req) # arg_type
    THEN DiffError(arg_req, arg_type)
    ELSE DiffOk(arg_type)

\* The loop over fn_req.args.iter().zip(&fn_type.args); zip stops at the
\* shorter of the two.
check_args(fn_req, fn_type) ==
  LET n == IF Len(fn_req.args) < Len(fn_type.args)
             THEN Len(fn_req.args)
             ELSE Len(fn_type.args)
  IN [i \in 1..n |-> arg_diff(fn_req.args[i], fn_type.args[i])]

\* (ReqType::Function, Type::Function): the match on the result's diff.
check_function(arg_diffs, result_diff, type) ==
  CASE result_diff.tag = "Ok" -> DiffOk(type)
    [] result_diff.tag = "Defer" ->
         DiffDefer(TFunction(type.args, result_diff.ty))
    [] OTHER -> DiffFunction(arg_diffs, result_diff)

RECURSIVE ReqType_check_type(_, _, _)
RECURSIVE check_type_impl(_, _)

ReqType_check_type(self, r, type) ==
  CASE type.tag = "Dynamic" -> check_dynamic(self)
    [] type.tag # "Dynamic" /\ self.tag \in AtomTags /\ type.tag = self.tag ->
         check_atom(type)
    [] self.tag = "List" /\ type.tag = "List" ->
         check_list(check_type_impl(self.elem, type.elem), type)
    [] self.tag = "Set" /\ type.tag = "Set" ->
         check_set(check_type_impl(self.elem, type.elem), type)
    [] self.tag = "Dict" /\ type.tag = "Dict" ->
         check_dict(check_type_impl(self.key, type.key),
                    check_type_impl(self.value, type.value), type)
    [] self.tag = "Function" /\ type.tag = "Function" ->
         IF arity_mismatch(self, type)
           THEN DiffError(r, type)
           ELSE check_function(check_args(self, type),
                               check_type_impl(self.result, type.result), type)
    [] OTHER -> check_mismatch(r, type)

check_type_impl(self, type) ==
  IF req_type(self) = NoReqType
    THEN DiffOk(type)
    ELSE ReqType_check_type(req_type(self), self, type)

(***************************************************************************)
(* The positions the static comparison visits, each with the requirement   *)
(* and the type compared there and the diff computed for it.  A position   *)
(* is the path from the root: Pos("elem"), Pos("key"), Pos("value"),       *)
(* Pos("result") or ArgPos(i) for the i-th argument (from 0).              *)
(***************************************************************************)
Pos(p) == [pos |-> p, idx |-> 0]
ArgPos(i) == [pos |-> "arg", idx |-> i]

Visit(path, r, type, d) == [path |-> path, req |-> r, ty |-> type, diff |-> d]

RECURSIVE visits(_, _, _)

visits(path, r, type) ==
  LET self == req_type(r)
      here == {Visit(path, r, type, check_type_impl(r, type))}
  IN IF self = NoReqType \/ type.tag = "Dynamic"
       THEN here
       ELSE CASE self.tag = "List" /\ type.tag = "List" ->
                   here \cup visits(Append(path, Pos("elem")), self.elem, type.elem)
              [] self.tag = "Set" /\ type.tag = "Set" ->
                   here \cup visits(Append(path, Pos("elem")), self.elem, type.elem)
              [] self.tag = "Dict" /\ type.tag = "Dict" ->
                   here \cup visits(Append(path, Pos("key")), self.key, type.key)
                        \cup visits(Append(path, Pos("value")), self.value, type.value)
              [] self.tag = "Function" /\ type.tag = "Function" ->
                   IF arity_mismatch(self, type)
                     THEN here
                     ELSE here
                          \cup { Visit(Append(path, ArgPos(i - 1)),
                                       self.args[i], type.args[i],
                                       check_args(self, type)[i]) :
                                 i \in 1..Len(check_args(self, type)) }
                          \cup visits(Append(path, Pos("result")),
                                      self.result, type.result)
              [] OTHER -> here

(***************************************************************************)
(* TypeReq::add_context and the public TypeReq::check_type.  The result is *)
(* Ok(Typed::Type), Ok(Typed::Defer), a reported error, or a panic from an *)
(* unreachable!() arm.                                                     *)
(***************************************************************************)
TypedType(t) == [tag |-> "Type", ty |-> t]
TypedDefer(t) == [tag |-> "Defer", ty |-> t]
Panic(m) == [tag |-> "Panic", message |-> m]

\* Type::is_atom of crate::types.
is_atom(t) == t.tag \in AtomTags

\* The span check_type is called with.
CallSite == "call site"

\* An error without a note, and without help.
NoNote == [span |-> "", text |-> ""]
NoHelp == ""

\* at.error("Type mismatch.").with_body(report_type_mismatch(expected, actual))
MismatchError(expected, actual) ==
  [tag |-> "Err", message |-> "Type mismatch.", expected |-> expected,
   actual |-> actual, at |-> CallSite, note |-> NoNote, help |-> NoHelp]

\* at.error("Type mismatch in type.").with_body(format!("TODO: Pretty-print: {diff:?}"))
NestedError(d) ==
  [tag |-> "Err", message |-> "Type mismatch in type.", body |-> d,
   at |-> CallSite]

\* Error::with_note of crate::error: the note and its span are added, the
\* error stays at its own span.
with_note(error, at, text) == [error EXCEPT !.note = [span |-> at, text |-> text]]

\* Error::with_help of crate::error.
with_help(error, text) == [error EXCEPT !.help = text]

\* concat! { "Expected " format_type(&t.to_type()) " due to this operator." },
\* format_type of crate::fmt_type giving the name of an atom.
operator_note(t) ==
  CASE t.tag = "Bool" -> "Expected Bool due to this operator."
    [] t.tag = "Int" -> "Expected Int due to this operator."
    [] t.tag = "Null" -> "Expected Null due to this operator."
    [] t.tag = "String" -> "Expected String due to this operator."

add_context(self, error) ==
  CASE self.tag = "None" ->
         Panic("If no type was expected, it wouldn't cause an error.")
    [] self.tag = "Annotation" ->
         with_note(error, self.at, "The expected type is specified here.")
    [] self.tag = "Condition" ->
         with_help(error,
                   "There is no implicit conversion, conditions must be boolean.")
    [] self.tag = "Operator" /\ is_atom(ReqType_to_type(self.t)) ->
         with_note(error, self.at, operator_note(ReqType_to_type(self.t)))
    [] self.tag = "Operator" /\ ~is_atom(ReqType_to_type(self.t)) ->
         Panic("We don't have operators with non-atomic types.")
    [] self.tag = "IndexList" ->
         with_help(error, "List indices must be integers.")

\* The match of the public check_type on the diff of the comparison.
resolve(self, d) ==
  CASE d.tag = "Ok" -> TypedType(d.ty)
    [] d.tag = "Defer" -> TypedDefer(d.ty)
    [] d.tag = "Error" ->
         add_context(self, MismatchError(TypeReq_to_type(d.req), d.ty))
    [] OTHER -> NestedError(d)

check_type(self, type) == resolve(self, check_type_impl(self, type))

(***************************************************************************)
(* enum Value (crate::runtime), as far as check_value matches on it.  A    *)
(* set holds its elements, and a dict its entries, in iteration order.     *)
(***************************************************************************)
VNull == [tag |-> "Null"]
VBool(b) == [tag |-> "Bool", b |-> b]
VInt(i) == [tag |-> "Int", i |-> i]
VString(s) == [tag |-> "String", s |-> s]
VList(elems) == [tag |-> "List", elems |-> elems]
VSet(elems) == [tag |-> "Set", elems |-> elems]
VDict(kvs) == [tag |-> "Dict", kvs |-> kvs]
VBuiltinFunction == [tag |-> "BuiltinFunction"]
Entry(k, v) == [k |-> k, v |-> v]

\* The expression has not been evaluated: there is no value to check yet.
Unevaluated == [tag |-> "Unevaluated"]

(***************************************************************************)
(* PathElement and the Result<()> of check_value.                          *)
(***************************************************************************)
Index(i) == [tag |-> "Index", i |-> i, key |-> ""]
Key(k) == [tag |-> "Key", i |-> 0, key |-> k]

ValueOk == [tag |-> "Ok"]

\* at.error("Type mismatch.").with_body(expected type, actual value)
ValueError(expected, got) ==
  [tag |-> "Err", message |-> "Type mismatch.", expected |-> expected,
   got |-> got, at |-> CallSite, path |-> <<>>]

\* Error::with_path_element of crate::error: the element is added at the end
\* of the path, so the path runs from the innermost element to the outermost.
with_path_element(err, element) == [err EXCEPT !.path = Append(@, element)]

\* The label of every dict entry in a path.
KeyLabel == "TODO: Support any key"

Least(S) == CHOOSE i \in S : \A j \in S : i <= j

\* Mutant of list_loop: the index is counted from 1.
list_loop_one_based(results) ==
  LET failing == {i \in 1..Len(results) : results[i].tag = "Err"}
  IN IF failing = {}
       THEN ValueOk
       ELSE with_path_element(results[Least(failing)], Index(Least(failing)))

\* The loop over elems.iter().enumerate() of a list: the first failing
\* element ends the loop, its error gets the element's index.
list_loop(results) ==
  LET failing == {i \in 1..Len(results) : results[i].tag = "Err"}
  IN IF failing = {}
       THEN ValueOk
       ELSE with_path_element(results[Least(failing)], Index(Least(failing) - 1))

\* The loop over elems.iter().enumerate() of a set.
set_loop(results) ==
  LET failing == {i \in 1..Len(results) : results[i].tag = "Err"}
  IN IF failing = {}
       THEN ValueOk
       ELSE with_path_element(results[Least(failing)], Index(Least(failing) - 1))

\* The loop over kvs.iter() of a dict: per entry the key is checked, then
\* the value; the first failure ends the loop.
dict_loop(key_results, value_results) ==
  LET failing == {i \in 1..Len(key_results) :
                    key_results[i].tag = "Err" \/ value_results[i].tag = "Err"}
      first == Least(failing)
  IN IF failing = {}
       THEN ValueOk
       ELSE IF key_results[first].tag = "Err"
              THEN with_path_element(key_results[first], Key(KeyLabel))
              ELSE with_path_element(value_results[first], Key(KeyLabel))

RECURSIVE check_value(_, _)

check_value(self, v) ==
  LET t == req_type(self)
  IN IF t = NoReqType
       THEN ValueOk
       ELSE CASE t.tag = "Null" /\ v.tag = "Null" -> ValueOk
              [] t.tag = "Bool" /\ v.tag = "Bool" -> ValueOk
              [] t.tag = "Int" /\ v.tag = "Int" -> ValueOk
              [] t.tag = "String" /\ v.tag = "String" -> ValueOk
              [] t.tag = "List" /\ v.tag = "List" ->
                   list_loop([i \in 1..Len(v.elems) |->
                                check_value(t.elem, v.elems[i])])
              [] t.tag = "Set" /\ v.tag = "Set" ->
                   set_loop([i \in 1..Len(v.elems) |->
                               check_value(t.elem, v.elems[i])])
              [] t.tag = "Dict" /\ v.tag = "Dict" ->
                   dict_loop([i \in 1..Len(v.kvs) |-> check_value(t.key, v.kvs[i].k)],
                             [i \in 1..Len(v.kvs) |-> check_value(t.value, v.kvs[i].v)])
              [] OTHER -> ValueError(ReqType_to_type(t), v)

(***************************************************************************)
(* The explored inputs.                                                    *)
(***************************************************************************)
SeqsUpTo(S, n) == UNION {[1..m -> S] : m \in 0..n}

\* Source locations of annotations and operators.
AnnotationSpan == "annotation"
OperatorSpan == "operator"

AtomTypes == {TNull, TBool, TInt, TString}
KeyTypes == {TString, TInt, TDynamic}
ArgTypes == {TInt, TDynamic}

\* Types of nesting depth at most d.  Depth 1 has every compound over the
\* atoms and Dynamic; each further level wraps the types of the level below
\* in a list, a dict value and a function result.
RECURSIVE Types(_)
Types(d) ==
  IF d = 0 THEN AtomTypes \cup {TDynamic}
  ELSE IF d = 1 THEN
    LET P == Types(0)
    IN P \cup {TList(t) : t \in P} \cup {TSet(t) : t \in P}
         \cup {TDict(k, v) : k \in KeyTypes, v \in P}
         \cup {TFunction(a, r) : a \in SeqsUpTo(ArgTypes, MaxArgs), r \in P}
  ELSE
    LET P == Types(d - 1)
        N == P \ Types(d - 2)
    IN P \cup {TList(t) : t \in N}
         \cup {TDict(TString, t) : t \in N}
         \cup {TFunction(<<TInt>>, t) : t \in N}

AtomReqs ==
  {Annotation(AnnotationSpan, RNull), Annotation(AnnotationSpan, RBool),
   Annotation(AnnotationSpan, RInt), Annotation(AnnotationSpan, RString),
   Operator(OperatorSpan, RInt), Condition, IndexList}
KeyReqs == {ReqNone, Annotation(AnnotationSpan, RString)}
ArgReqs == {ReqNone, Annotation(AnnotationSpan, RInt)}

\* Requirements of nesting depth at most d, built like Types(d).  Compound
\* shapes come from annotations only: operators require atoms.
RECURSIVE Reqs(_)
Reqs(d) ==
  IF d = 0 THEN AtomReqs \cup {ReqNone}
  ELSE IF d = 1 THEN
    LET P == Reqs(0)
    IN P \cup {Annotation(AnnotationSpan, RList(r)) : r \in P}
         \cup {Annotation(AnnotationSpan, RSet(r)) : r \in P}
         \cup {Annotation(AnnotationSpan, RDict(k, v)) : k \in KeyReqs, v \in P}
         \cup {Annotation(AnnotationSpan, RFunction(a, r)) :
                 a \in SeqsUpTo(ArgReqs, MaxArgs), r \in P}
  ELSE
    LET P == Reqs(d - 1)
        N == P \ Reqs(d - 2)
    IN P \cup {Annotation(AnnotationSpan, RList(r)) : r \in N}
         \cup {Annotation(AnnotationSpan,
                          RDict(Annotation(AnnotationSpan, RString), r)) : r \in N}
         \cup {Annotation(AnnotationSpan,
                          RFunction(<<Annotation(AnnotationSpan, RInt)>>, r)) : r \in N}

AllTypes == Types(MaxDepth)
AllReqs == Reqs(MaxDepth)

\* Runtime values: atoms, lists of atoms, lists of lists, sets and dicts in
\* iteration order, and a builtin function.
AtomValues == {VNull, VBool(TRUE), VInt(1), VString("a")}
NestedValues ==
  {VInt(1), VList(<<VInt(1)>>), VList(<<VBool(TRUE)>>),
   VList(<<VInt(1), VString("a")>>)}
SetValues ==
  {VSet(<<>>), VSet(<<VInt(1)>>), VSet(<<VInt(1), VInt(2)>>),
   VSet(<<VInt(1), VString("a")>>), VSet(<<VBool(TRUE), VInt(1), VString("a")>>)}
DictValues ==
  {VDict(<<>>)}
    \cup {VDict(<<Entry(VString("a"), v)>>) : v \in AtomValues \cup NestedValues}
    \cup {VDict(<<Entry(VString("b"), v)>>) : v \in AtomValues}
    \cup {VDict(<<Entry(VString("a"), v), Entry(VString("b"), w)>>) :
            v \in AtomValues, w \in AtomValues}
    \cup {VDict(<<Entry(VInt(1), v), Entry(VString("a"), w)>>) :
            v \in AtomValues, w \in AtomValues}
AllValues ==
  AtomValues \cup {VBuiltinFunction}
    \cup {VList(s) : s \in SeqsUpTo(AtomValues, MaxLen)}
    \cup {VList(s) : s \in SeqsUpTo(NestedValues, MaxLen)}
    \cup SetValues \cup DictValues

\* Requirements checked against runtime values.
AnnInt == Annotation(AnnotationSpan, RInt)
AnnString == Annotation(AnnotationSpan, RString)
DynReqs ==
  AtomReqs \cup {ReqNone}
    \cup {Annotation(AnnotationSpan, RList(r)) :
            r \in {ReqNone, AnnInt, AnnString, Annotation(AnnotationSpan, RList(AnnInt)),
                   Annotation(AnnotationSpan, RList(ReqNone))}}
    \cup {Annotation(AnnotationSpan, RSet(r)) : r \in {ReqNone, AnnInt}}
    \cup {Annotation(AnnotationSpan, RDict(k, v)) :
            k \in {ReqNone, AnnInt, AnnString},
            v \in {ReqNone, AnnInt, Annotation(AnnotationSpan, RList(AnnInt))}}
    \cup {Annotation(AnnotationSpan, RFunction(<<AnnInt>>, AnnInt))}

(***************************************************************************)
(* The state machine: a requirement and an inferred type are compared      *)
(* statically; when the outcome is deferred and the expression has been    *)
(* evaluated, the value is checked dynamically.                            *)
(***************************************************************************)
NoDiff == [tag |-> "NoDiff"]
NoResult == [tag |-> "NoResult"]

\* Typechecking only: the expression is never evaluated.
InitStatic ==
  /\ req \in AllReqs
  /\ type_ \in AllTypes
  /\ value = Unevaluated

\* An expression of statically unknown type that evaluates to a value.
InitDynamic ==
  /\ req \in DynReqs
  /\ type_ = TDynamic
  /\ value \in AllValues

Init ==
  /\ InitStatic \/ InitDynamic
  /\ pc = "start"
  /\ diff = NoDiff
  /\ visited = {}
  /\ typed = NoResult
  /\ checked = NoResult

\* TypeReq::check_type
CheckType ==
  /\ pc = "start"
  /\ diff' = check_type_impl(req, type_)
  /\ visited' = visits(<<>>, req, type_)
  /\ typed' = check_type(req, type_)
  /\ pc' = CASE typed'.tag = "Type" -> "resolved"
             [] typed'.tag = "Defer" -> "deferred"
             [] OTHER -> "failed"
  /\ UNCHANGED <<req, type_, value, checked>>

\* TypeReq::check_value
CheckValue ==
  /\ pc = "deferred"
  /\ value # Unevaluated
  /\ checked' = check_value(req, value)
  /\ pc' = IF checked'.tag = "Ok" THEN "pass" ELSE "fail"
  /\ UNCHANGED <<req, type_, value, diff, visited, typed>>

Next == CheckType \/ CheckValue

Spec == Init /\ [][Next]_vars

(***************************************************************************)
(* Vocabulary of the properties.                                           *)
(***************************************************************************)
Compared == pc # "start"
ValueChecked == pc \in {"pass", "fail"}

HasShape(r) == req_type(r) # NoReqType

RECURSIVE ContainsDynamic(_)
ContainsDynamic(t) ==
  CASE t.tag = "Dynamic" -> TRUE
    [] t.tag \in {"List", "Set"} -> ContainsDynamic(t.elem)
    [] t.tag = "Dict" -> ContainsDynamic(t.key) \/ ContainsDynamic(t.value)
    [] t.tag = "Function" ->
         \/ \E i \in 1..Len(t.args) : ContainsDynamic(t.args[i])
         \/ ContainsDynamic(t.result)
    [] OTHER -> FALSE

\* The flat Error nodes anywhere in a diff.
RECURSIVE ErrorNodes(_)
ErrorNodes(d) ==
  CASE d.tag = "Error" -> {d}
    [] d.tag \in {"List", "Set"} -> ErrorNodes(d.inner)
    [] d.tag = "Dict" -> ErrorNodes(d.k) \cup ErrorNodes(d.v)
    [] d.tag = "Function" ->
         UNION {ErrorNodes(d.args[i]) : i \in 1..Len(d.args)}
           \cup ErrorNodes(d.result)
    [] OTHER -> {}

IsArgVisit(v) == v.path # <<>> /\ v.path[Len(v.path)].pos = "arg"

\* A visit that compares a Function requirement with a Function type.
IsFunctionVisit(v) ==
  /\ HasShape(v.req)
  /\ ~IsArgVisit(v)
  /\ req_type(v.req).tag = "Function"
  /\ v.ty.tag = "Function"

\* A visit that compares a Dict requirement with a Dict type.
IsDictVisit(v) ==
  /\ HasShape(v.req)
  /\ ~IsArgVisit(v)
  /\ req_type(v.req).tag = "Dict"
  /\ v.ty.tag = "Dict"

SameArity(v) == Len(req_type(v.req).args) = Len(v.ty.args)

\* The diff computed at the position p below the visit v.
ChildDiff(v, p) ==
  (CHOOSE w \in visited : w.path = Append(v.path, p)).diff

Below(v) ==
  {w \in visited : Len(w.path) > Len(v.path)
                   /\ SubSeq(w.path, 1, Len(v.path)) = v.path}

(***************************************************************************)
(* C1: a Function requirement against a Function type of the same arity is *)
(* Ok if and only if every argument requirement projects to exactly the    *)
(* actual argument type and the comparison of the result is Ok.            *)
(***************************************************************************)
FunctionArgsSound ==
  \A v \in visited :
    IsFunctionVisit(v) /\ SameArity(v) =>
      (v.diff.tag = "Ok" <=>
         /\ \A i \in 1..Len(v.ty.args) :
              TypeReq_to_type(req_type(v.req).args[i]) = v.ty.args[i]
         /\ ChildDiff(v, Pos("result")).tag = "Ok")

(***************************************************************************)
(* C2: at every visited position where the actual type is Dynamic and the  *)
(* requirement carries a shape, the diff is Defer of the projection, never *)
(* Error (the claim as stated, function arguments included).               *)
(***************************************************************************)
DynamicAlwaysDefers ==
  \A v \in visited :
    v.ty = TDynamic /\ HasShape(v.req) =>
      v.diff = DiffDefer(TypeReq_to_type(v.req))

(***************************************************************************)
(* C2, amended: at every visited position other than a function argument,  *)
(* a Dynamic actual type against a requirement with a shape gives Defer of *)
(* the projection; at a function argument, compared by equality of the     *)
(* projection, it gives Error(requirement, Dynamic).                       *)
(***************************************************************************)
DynamicDefersOutsideArgs ==
  \A v \in visited :
    v.ty = TDynamic /\ HasShape(v.req) =>
      IF IsArgVisit(v)
        THEN v.diff = DiffError(v.req, TDynamic)
        ELSE v.diff = DiffDefer(TypeReq_to_type(v.req))

\* A Dynamic element below the top was deferred, and so was the whole.
DynamicDefersWitness ==
  /\ Compared
  /\ diff = DiffDefer(TypeReq_to_type(req))
  /\ type_ # TDynamic
  /\ \E v \in visited :
       /\ Len(v.path) = 2
       /\ ~IsArgVisit(v)
       /\ v.ty = TDynamic
       /\ HasShape(v.req)
       /\ v.diff.tag = "Defer"

(***************************************************************************)
(* C3: TypeReq::None never produces an error: wherever the requirement is  *)
(* None the diff is Ok(actual), no Error node of the diff carries None,    *)
(* and a top-level None resolves to Typed::Type(actual).                   *)
(***************************************************************************)
NoneNeverErrors ==
  Compared =>
    /\ \A v \in visited : v.req = ReqNone => v.diff = DiffOk(v.ty)
    /\ \A e \in ErrorNodes(diff) : e.req # ReqNone
    /\ req = ReqNone => typed = TypedType(type_)

(***************************************************************************)
(* C4: comparing a requirement whose projection has no Dynamic against its *)
(* own projection gives Ok(projection).                                    *)
(***************************************************************************)
ProjectionRoundTrips ==
  (/\ Compared
   /\ HasShape(req)
   /\ ~ContainsDynamic(TypeReq_to_type(req))
   /\ type_ = TypeReq_to_type(req))
    => diff = DiffOk(type_)

\* A function of two arguments inside a list, compared with its projection.
ProjectionRoundTripsWitness ==
  /\ Compared
  /\ HasShape(req)
  /\ type_ = TypeReq_to_type(req)
  /\ ~ContainsDynamic(type_)
  /\ type_.tag = "List"
  /\ type_.elem.tag = "Function"
  /\ Len(type_.elem.args) = 2
  /\ diff = DiffOk(type_)

(***************************************************************************)
(* C5: a Function requirement against a Function type with another number  *)
(* of arguments gives the flat Error(requirement, actual) of that position *)
(* and compares nothing below it, whatever Dynamic the actual type holds.  *)
(***************************************************************************)
ArityMismatchIsFlatError ==
  \A v \in visited :
    IsFunctionVisit(v) /\ ~SameArity(v) =>
      /\ v.diff = DiffError(v.req, v.ty)
      /\ Below(v) = {}

\* An arity mismatch below the top, with Dynamic as argument and as result.
ArityMismatchWitness ==
  /\ Compared
  /\ \E v \in visited :
       /\ IsFunctionVisit(v)
       /\ ~SameArity(v)
       /\ v.path # <<>>
       /\ v.ty.result = TDynamic
       /\ \E i \in 1..Len(v.ty.args) : v.ty.args[i] = TDynamic
       /\ v.diff.tag = "Error"

(***************************************************************************)
(* C6: a Dict requirement against a Dict type: both branches Ok give       *)
(* Ok(actual); Ok and Defer branches, not both Ok, give Defer of the dict  *)
(* of the types the two branch diffs carry; any error branch gives a Dict  *)
(* diff carrying both branch diffs unchanged.                              *)
(***************************************************************************)
DictCombinesBranches ==
  \A v \in visited :
    IsDictVisit(v) =>
      LET k == ChildDiff(v, Pos("key"))
          w == ChildDiff(v, Pos("value"))
      IN CASE k.tag = "Ok" /\ w.tag = "Ok" -> v.diff = DiffOk(v.ty)
           [] k.tag \in {"Ok", "Defer"} /\ w.tag \in {"Ok", "Defer"}
                /\ ~(k.tag = "Ok" /\ w.tag = "Ok") ->
                v.diff = DiffDefer(TDict(k.ty, w.ty))
           [] OTHER -> v.diff = DiffDict(k, w)

\* The key branch is Ok and the value branch is deferred.
DictCombinesWitness ==
  /\ Compared
  /\ IsDictVisit(Visit(<<>>, req, type_, diff))
  /\ ChildDiff(Visit(<<>>, req, type_, diff), Pos("key")) = DiffOk(TString)
  /\ ChildDiff(Visit(<<>>, req, type_, diff), Pos("value")).tag = "Defer"
  /\ type_.value # TDynamic
  /\ diff.tag = "Defer"
  /\ diff.ty.key = TString
  /\ diff.ty.value # type_.value

(***************************************************************************)
(* C7: the dynamic check of a List requirement against a list value fails  *)
(* exactly when some element fails the element requirement; the path of    *)
(* the failure is the path of the first failing element's own failure with *)
(* Index(i) added after it, i the element's position counted from 0; when  *)
(* no element fails nothing is reported.                                   *)
(***************************************************************************)
ListFailurePath ==
  (/\ ValueChecked
   /\ HasShape(req)
   /\ req_type(req).tag = "List"
   /\ value.tag = "List")
    => LET inner == [i \in 1..Len(value.elems) |->
                       check_value(req_type(req).elem, value.elems[i])]
           failing == {i \in 1..Len(value.elems) : inner[i].tag = "Err"}
       IN /\ checked.tag = "Err" <=> failing # {}
          /\ failing = {} => checked = ValueOk
          /\ failing # {} =>
               \E i \in failing :
                 /\ \A j \in failing : i <= j
                 /\ checked.path = inner[i].path \o <<Index(i - 1)>>
                 /\ inner[i].path = <<>> => checked.path[1] = Index(i - 1)

\* A list of lists whose only violation is in the element at position 2, at
\* position 1 inside it.
ListFailureWitness ==
  /\ ValueChecked
  /\ HasShape(req)
  /\ req_type(req).tag = "List"
  /\ value.tag = "List"
  /\ Len(value.elems) = 3
  /\ checked.tag = "Err"
  /\ checked.path = <<Index(1), Index(2)>>

(***************************************************************************)
(* C8: the dynamic check of a Dict requirement against a dict value whose  *)
(* entry under key k violates the key or the value requirement fails with  *)
(* a path element that identifies k.                                       *)
(***************************************************************************)
KeyText(k) == IF k.tag = "String" THEN k.s ELSE k.tag

DictFailureNamesKey ==
  (/\ ValueChecked
   /\ HasShape(req)
   /\ req_type(req).tag = "Dict"
   /\ value.tag = "Dict"
   /\ checked.tag = "Err")
    => \E i \in 1..Len(value.kvs) :
         /\ \/ check_value(req_type(req).key, value.kvs[i].k).tag = "Err"
            \/ check_value(req_type(req).value, value.kvs[i].v).tag = "Err"
         /\ checked.path[Len(checked.path)] = Key(KeyText(value.kvs[i].k))

(***************************************************************************)
(* C9: a top-level flat Error of the comparison carries the requirement    *)
(* check_type was called on and the type it was given, that requirement is *)
(* not None, so add_context never reaches its None arm; an error below the *)
(* top is wrapped in a List, Set, Dict or Function diff and is reported    *)
(* through the placeholder, without add_context.                           *)
(***************************************************************************)
ContextNeverNone ==
  Compared =>
    /\ diff.tag = "Error" =>
         /\ diff.req = req
         /\ diff.ty = type_
         /\ req # ReqNone
         /\ typed.tag = "Err"
         /\ typed.message = "Type mismatch."
         /\ typed.at = CallSite
         /\ typed.note # NoNote \/ typed.help # NoHelp
    /\ typed # Panic("If no type was expected, it wouldn't cause an error.")
    /\ diff.tag \in {"List", "Set", "Dict", "Function"} =>
         /\ ErrorNodes(diff) # {}
         /\ typed = NestedError(diff)

\* A top-level flat Error from an arity mismatch, explained by the annotation.
ContextWitness ==
  /\ Compared
  /\ diff.tag = "Error"
  /\ type_.tag = "Function"
  /\ req_type(req).tag = "Function"
  /\ typed.tag = "Err"
  /\ typed.at = CallSite
  /\ typed.note = [span |-> AnnotationSpan,
                   text |-> "The expected type is specified here."]

(***************************************************************************)
(* C10: against an actual type without Dynamic at any depth the comparison *)
(* never defers, at any visited position, and check_type does not return   *)
(* Typed::Defer.                                                           *)
(***************************************************************************)
DeferOnlyFromDynamic ==
  Compared =>
    /\ \A v \in visited : ~ContainsDynamic(v.ty) => v.diff.tag # "Defer"
    /\ ~ContainsDynamic(type_) => diff.tag # "Defer" /\ typed.tag # "Defer"

\* A requirement with None inside (it projects to Dynamic) against a dict
\* type without Dynamic resolves statically.
DeferOnlyWitness ==
  /\ pc = "resolved"
  /\ HasShape(req)
  /\ ContainsDynamic(TypeReq_to_type(req))
  /\ type_.tag = "Dict"
  /\ ~ContainsDynamic(type_)
  /\ typed = TypedType(type_)

====
